---- MODULE Spec2Model ----
(***************************************************************************)
(* Sales Performance Analytics: the extraction run (data_extraction.py)    *)
(* followed by the visualization run (create_visualizations.py).           *)
(*                                                                         *)
(* Numbers with decimals (prices, ratings, cart totals) are fixed-point    *)
(* integers in units of 0.01; ages, stocks, quantities and counts are      *)
(* plain integers.  A pandas NaN / NULL cell is the marker NaN.            *)
(***************************************************************************)
EXTENDS Integers, Sequences, FiniteSets, TLC

VARIABLES
    api_products,   \* the "products" list served by the API
    api_users,      \* the "users" list served by the API
    api_carts,      \* the "carts" list served by the API
    net,            \* endpoints whose request succeeds in this run
    renderFaults,   \* charts whose rendering/saving raises in this run
    pc,             \* position of the program
    frames,         \* run_extraction locals: products_df, users_df, carts_df, cart_items_df
    db,             \* sales_data.db: one table per entity
    self,           \* attributes of SalesVisualizationDashboard set by load_data
    conn,           \* the visualization run's sqlite connection
    revenue_data,   \* create_revenue_by_category_chart: revenue_data
    segment_summary,\* create_customer_segmentation_chart: segment_summary
    customer_metrics,\* create_sales_performance_chart: customer_metrics
    top_customers,  \* create_sales_performance_chart: top_customers
    summary_data,   \* create_executive_summary_dashboard: KPIs and revenue_by_category
    age_segments,   \* create_executive_summary_dashboard: pd.cut age bins
    showcase,       \* create_portfolio_showcase_image: its three summaries
    saved,          \* chart files written, in order
    log,            \* console lines that report an outcome
    results,        \* return value of generate_all_visualizations
    csv,            \* CSV files written by the extraction run
    xconn,          \* the extraction run's sqlite connection
    dbFault,        \* the database write that raises in this run, if any
    requests,       \* endpoints requested by fetch_data, in order
    written         \* tables replaced by this run's create_sqlite_database

vars == <<api_products, api_users, api_carts, net, renderFaults, pc, frames, db,
          self, conn, revenue_data, segment_summary, customer_metrics,
          top_customers, summary_data, age_segments, showcase, saved, log, results,
          csv, xconn, dbFault, requests, written>>

(***************************************************************************)
(* Bounds of the model                                                     *)
(***************************************************************************)
MaxProducts == 2
MaxUsers == 2
MaxCarts == 3
MaxPopulation == 16
MaxItems == 2
MaxSavingsCarts == 2

(***************************************************************************)
(* Values                                                                  *)
(***************************************************************************)
Scale == 100
NaN == -1
Bad == -2
Absent == -3
PosInf == 1000000000
NegInf == -PosInf

IsNa(v) == v = NaN

\* pd.to_numeric(errors='coerce'): a value that does not parse becomes NaN; a key
\* that a record lacks is NaN already in the DataFrame
ToNumeric(v) == IF v \in {Bad, Absent} THEN NaN ELSE v

\* numpy round of the rational num/den to an integer, ties to even
RoundHalfEven(num, den) ==
    LET q == num \div den
        r == num % den
    IN  IF 2 * r > den THEN q + 1
        ELSE IF 2 * r = den THEN q + (q % 2)
        ELSE q

RECURSIVE SumSkipNa(_)
\* pandas sum(): NaN entries are skipped, the empty sum is 0
SumSkipNa(vals) ==
    IF vals = <<>> THEN 0
    ELSE (IF IsNa(Head(vals)) THEN 0 ELSE Head(vals)) + SumSkipNa(Tail(vals))

\* pandas count(): the number of non-NaN entries
CountNotNa(vals) == Len(SelectSeq(vals, LAMBDA v : ~IsNa(v)))

\* pandas mean().round(d): NaN when nothing is left, unit is 10^-d of the column's unit
MeanRound(vals, factor) ==
    IF CountNotNa(vals) = 0 THEN NaN
    ELSE RoundHalfEven(factor * SumSkipNa(vals), CountNotNa(vals))

Column(df, f) == [i \in 1..Len(df) |-> df[i][f]]

RECURSIVE SortedKeys(_)
\* groupby keys in ascending order (integer keys)
SortedKeys(S) ==
    IF S = {} THEN <<>>
    ELSE LET m == CHOOSE x \in S : \A y \in S : x <= y
         IN  <<m>> \o SortedKeys(S \ {m})

\* category names in lexicographic order
CategoryOrder == <<"A", "B">>
CategoryRank(c) == CHOOSE i \in 1..Len(CategoryOrder) : CategoryOrder[i] = c

None == [ok |-> FALSE, rows |-> <<>>]
Frame(rows) == [ok |-> TRUE, rows |-> rows]

\* the permutations of 1..n
Perms(n) == {p \in [1..n -> 1..n] : \A i, j \in 1..n : i # j => p[i] # p[j]}

\* sort_values(ascending=False) with the default, unstable quicksort: any order
\* of the rows that is descending in the key
SortDescending(rows, f) ==
    {[i \in 1..Len(rows) |-> rows[p[i]]] : p \in
        {q \in Perms(Len(rows)) :
            \A i \in 1..(Len(rows) - 1) : rows[q[i]][f] >= rows[q[i + 1]][f]}}

(***************************************************************************)
(* Extraction run: SalesDataExtractor                                      *)
(***************************************************************************)
\* SalesDataExtractor.categorize_age
categorize_age(age) ==
    IF IsNa(age) THEN "Unknown"
    ELSE IF age < 25 THEN "Gen Z (Under 25)"
    ELSE IF 25 <= age /\ age <= 35 THEN "Millennials (25-35)"
    ELSE IF 36 <= age /\ age <= 50 THEN "Gen X (36-50)"
    ELSE "Boomers (50+)"

\* NaN propagates through arithmetic on a row
NaMul(a, b) == IF IsNa(a) \/ IsNa(b) THEN NaN ELSE a * b

\* one row of products.csv / the products table
ProductRow(p) ==
    LET price == ToNumeric(p.price)
        stock == ToNumeric(p.stock)
    IN  [id |-> p.id, category |-> p.category, price |-> price,
         rating |-> ToNumeric(p.rating), stock |-> stock,
         revenue_potential |-> NaMul(price, stock)]

\* one row of users.csv / the users table
UserRow(u) ==
    LET age == ToNumeric(u.age)
    IN  [id |-> u.id, age |-> age, gender |-> u.gender, age_group |-> categorize_age(age)]

NaSub(a, b) == IF IsNa(a) \/ IsNa(b) THEN NaN ELSE a - b

\* (total_savings / total * 100).round(2), in hundredths of a percent: float
\* division by zero gives an infinity, 0 / 0 gives NaN
SavingsPercentage(savings, total) ==
    IF IsNa(savings) \/ IsNa(total) THEN NaN
    ELSE IF total = 0
         THEN (IF savings = 0 THEN NaN ELSE IF savings > 0 THEN PosInf ELSE NegInf)
    ELSE RoundHalfEven(savings * 100 * Scale, total)

\* one row of carts.csv / the carts table
CartRow(c) ==
    LET total      == ToNumeric(c.total)
        discounted == ToNumeric(c.discountedTotal)
    IN  [id |-> c.id, userId |-> c.userId, total |-> total,
         discountedTotal    |-> discounted,
         totalQuantity      |-> ToNumeric(c.totalQuantity),
         total_savings      |-> NaSub(total, discounted),
         savings_percentage |-> SavingsPercentage(NaSub(total, discounted), total)]

\* the columns extract_carts selects from the DataFrame of the fetched carts
CartColumns == {"total", "discountedTotal", "totalQuantity"}

\* carts_df[cart_columns] raises KeyError: no fetched cart has the column
MissingColumn(carts) == \E f \in CartColumns : \A k \in 1..Len(carts) : carts[k][f] = Absent

\* product['id'] or product['quantity'] raises KeyError: a line item lacks the key
MissingItemKey(carts) ==
    \E k \in 1..Len(carts) : \E i \in 1..Len(carts[k].products) :
        carts[k].products[i].id = Absent \/ carts[k].products[i].quantity = Absent

\* the loop over a cart's line items stopping one item early
CartItemRowsSkipLast(c) ==
    [i \in 1..(Len(c.products) - 1) |->
        [cart_id |-> c.id, user_id |-> c.userId,
         product_id |-> c.products[i].id, quantity |-> c.products[i].quantity,
         discount_percentage |-> IF c.products[i].discountPercentage = Absent THEN 0
                                 ELSE c.products[i].discountPercentage]]

\* the rows of cart_items.csv contributed by one cart
CartItemRows(c) ==
    [i \in 1..Len(c.products) |->
        [cart_id |-> c.id, user_id |-> c.userId,
         product_id |-> c.products[i].id, quantity |-> c.products[i].quantity,
         discount_percentage |-> IF c.products[i].discountPercentage = Absent THEN 0
                                 ELSE c.products[i].discountPercentage]]

RECURSIVE FlattenItems(_)
FlattenItems(carts) ==
    IF carts = <<>> THEN <<>>
    ELSE CartItemRows(Head(carts)) \o FlattenItems(Tail(carts))

MapSeq(s, Op(_)) == [i \in 1..Len(s) |-> Op(s[i])]

\* run_extraction aborted by an exception no handler catches
Crash ==
    /\ pc' = "crashed"
    /\ log' = Append(log, "Traceback")

vizVars == <<self, conn, revenue_data, segment_summary, customer_metrics,
             top_customers, summary_data, age_segments, showcase, saved, results>>
envVars == <<api_products, api_users, api_carts, net, renderFaults, dbFault>>
extractVars == <<frames, db, csv, xconn, requests, written>>

\* extract_products, with its fetch_data("products")
ExtractProducts ==
    /\ pc = "extract_products"
    /\ requests' = Append(requests, "products")
    /\ IF "products" \notin net
       THEN /\ frames' = [frames EXCEPT !.products = None]
            /\ log' = Append(log, "Error fetching products")
            /\ pc' = "extract_users"
            /\ csv' = csv
       ELSE IF api_products = <<>>
       THEN Crash /\ UNCHANGED <<frames, csv>>
       ELSE /\ frames' = [frames EXCEPT !.products = Frame(MapSeq(api_products, ProductRow))]
            /\ csv' = csv \cup {"products.csv"}
            /\ log' = log
            /\ pc' = "extract_users"
    /\ UNCHANGED <<db, xconn, written>>
    /\ UNCHANGED envVars
    /\ UNCHANGED vizVars

\* extract_users, with its fetch_data("users")
ExtractUsers ==
    /\ pc = "extract_users"
    /\ requests' = Append(requests, "users")
    /\ IF "users" \notin net
       THEN /\ frames' = [frames EXCEPT !.users = None]
            /\ log' = Append(log, "Error fetching users")
            /\ pc' = "extract_carts"
            /\ csv' = csv
       ELSE IF api_users = <<>>
       THEN Crash /\ UNCHANGED <<frames, csv>>
       ELSE /\ frames' = [frames EXCEPT !.users = Frame(MapSeq(api_users, UserRow))]
            /\ csv' = csv \cup {"users.csv"}
            /\ log' = log
            /\ pc' = "extract_carts"
    /\ UNCHANGED <<db, xconn, written>>
    /\ UNCHANGED envVars
    /\ UNCHANGED vizVars

\* extract_carts, with its fetch_data("carts")
ExtractCarts ==
    /\ pc = "extract_carts"
    /\ requests' = Append(requests, "carts")
    /\ IF "carts" \notin net
       THEN /\ frames' = [frames EXCEPT !.carts = None, !.cart_items = None]
            /\ log' = Append(log, "Error fetching carts")
            /\ pc' = "create_db"
            /\ csv' = csv
       ELSE IF api_carts = <<>> \/ MissingColumn(api_carts)
       THEN Crash /\ UNCHANGED <<frames, csv>>
       ELSE IF MissingItemKey(api_carts)
       THEN Crash /\ csv' = csv \cup {"carts.csv"} /\ frames' = frames
       ELSE LET items == FlattenItems(api_carts)
            IN  /\ frames' = [frames EXCEPT
                       !.carts = Frame(MapSeq(api_carts, CartRow)),
                       !.cart_items = IF items = <<>> THEN None ELSE Frame(items)]
                /\ csv' = csv \cup {"carts.csv"} \cup
                               (IF items = <<>> THEN {} ELSE {"cart_items.csv"})
                /\ log' = log
                /\ pc' = "create_db"
    /\ UNCHANGED <<db, xconn, written>>
    /\ UNCHANGED envVars
    /\ UNCHANGED vizVars

TableNames == {"products", "users", "carts", "cart_items"}

\* the order in which create_sqlite_database writes the tables
TableOrder == <<"products", "users", "carts", "cart_items">>

\* the position of the first to_sql call that raises, 5 when none does
FailAt ==
    IF \E k \in 1..4 : TableOrder[k] = dbFault /\ frames[TableOrder[k]].ok
    THEN CHOOSE k \in 1..4 : TableOrder[k] = dbFault
    ELSE 5

\* create_sqlite_database and the rest of run_extraction
CreateSqliteDatabase ==
    /\ pc = "create_db"
    /\ LET replaced == {TableOrder[k] : k \in {j \in 1..4 : j < FailAt /\ frames[TableOrder[j]].ok}}
           tables   == [t \in TableNames |-> IF t \in replaced THEN frames[t] ELSE db[t]]
           raised   == \/ FailAt < 5
                       \/ dbFault = "index"
                       \/ \E t \in TableNames : ~tables[t].ok
       IN  /\ db' = tables
           /\ written' = replaced
           /\ xconn' = IF raised THEN "open" ELSE "closed"
           /\ log' = log \o (IF raised THEN <<"Error creating database">>
                                       ELSE <<"Database successfully created">>)
                         \o <<"Data extraction completed successfully!",
                              "Files created: sales_analytics.db">>
    /\ pc' = "load_data"
    /\ UNCHANGED <<frames, csv, requests>>
    /\ UNCHANGED envVars
    /\ UNCHANGED vizVars

(***************************************************************************)
(* Visualization run: SalesVisualizationDashboard                          *)
(***************************************************************************)
\* IEEE comparisons: every comparison with NaN is false
NaLt(a, b) == ~IsNa(a) /\ ~IsNa(b) /\ a < b
NaLe(a, b) == ~IsNa(a) /\ ~IsNa(b) /\ a <= b

\* __init__ and load_data: the tables are read in order until one is absent
LoadData ==
    /\ pc = "load_data"
    /\ conn' = "open"
    /\ LET okP == db["products"].ok
           okU == okP /\ db["users"].ok
           okC == okU /\ db["carts"].ok
           okI == okC /\ db["cart_items"].ok
       IN  /\ self' = [products   |-> IF okP THEN db["products"] ELSE None,
                       users      |-> IF okU THEN db["users"] ELSE None,
                       carts      |-> IF okC THEN db["carts"] ELSE None,
                       cart_items |-> IF okI THEN db["cart_items"] ELSE None]
           /\ log' = Append(log, IF okI THEN "Data loaded successfully"
                                        ELSE "Error loading data")
    /\ pc' = "chart1"
    /\ UNCHANGED <<revenue_data, segment_summary, customer_metrics, top_customers,
                   summary_data, age_segments, showcase, saved, results>>
    /\ UNCHANGED envVars
    /\ UNCHANGED extractVars

\* the categories present, in groupby order
CategoryKeys(df) ==
    SelectSeq(CategoryOrder, LAMBDA c : \E i \in 1..Len(df) : df[i].category = c)

CategoryGroup(df, c) == SelectSeq(df, LAMBDA r : r.category = c)

\* mean price x total stock in place of the sum of the per-row products
RevenuePotentialOfMeans(g) ==
    NaMul(MeanRound(Column(g, "price"), 1), SumSkipNa(Column(g, "stock")))

\* groupby('category').apply(lambda x: (x['price'] * x['stock']).sum()) for one group
RevenuePotential(g) == SumSkipNa([i \in 1..Len(g) |-> NaMul(g[i].price, g[i].stock)])

\* one row of revenue_data before sorting
RevenueRow(df, c) ==
    LET g == CategoryGroup(df, c)
    IN  [category          |-> c,
         product_count     |-> CountNotNa(Column(g, "price")),
         avg_price         |-> MeanRound(Column(g, "price"), 1),
         total_stock       |-> SumSkipNa(Column(g, "stock")),
         avg_rating        |-> MeanRound(Column(g, "rating"), 1),
         revenue_potential |-> RevenuePotential(g)]

RevenueRows(df) == MapSeq(CategoryKeys(df), LAMBDA c : RevenueRow(df, c))

\* an except clause that logs the error and still returns the results
RaiseReturnsResults ==
    /\ log' = Append(log, "Error generating visualizations")
    /\ results' = "dict"
    /\ conn' = "closed"
    /\ pc' = "main"

\* the except and finally clauses of generate_all_visualizations
Raise ==
    /\ log' = Append(log, "Error generating visualizations")
    /\ results' = "None"
    /\ conn' = "closed"
    /\ pc' = "main"

\* create_revenue_by_category_chart
CreateRevenueByCategoryChart ==
    /\ pc = "chart1"
    /\ IF ~self.products.ok
       THEN Raise /\ UNCHANGED <<revenue_data, saved>>
       ELSE /\ revenue_data' \in SortDescending(RevenueRows(self.products.rows),
                                                "revenue_potential")
            /\ IF "chart1" \in renderFaults
               THEN Raise /\ saved' = saved
               ELSE /\ saved' = Append(saved, "01_revenue_by_category_dashboard.png")
                    /\ pc' = "chart2"
                    /\ UNCHANGED <<log, results, conn>>
    /\ UNCHANGED <<self, segment_summary, customer_metrics, top_customers,
                   summary_data, age_segments, showcase>>
    /\ UNCHANGED envVars
    /\ UNCHANGED extractVars

\* the first boundary taken as age <= 25
chart_categorize_age_le(age) ==
    IF NaLe(age, 25) THEN "Gen Z (Under 25)"
    ELSE IF NaLe(25, age) /\ NaLe(age, 35) THEN "Millennials (25-35)"
    ELSE IF NaLe(36, age) /\ NaLe(age, 50) THEN "Gen X (36-50)"
    ELSE "Boomers (50+)"

\* create_customer_segmentation_chart.categorize_age
chart_categorize_age(age) ==
    IF NaLt(age, 25) THEN "Gen Z (Under 25)"
    ELSE IF NaLe(25, age) /\ NaLe(age, 35) THEN "Millennials (25-35)"
    ELSE IF NaLe(36, age) /\ NaLe(age, 50) THEN "Gen X (36-50)"
    ELSE "Boomers (50+)"

\* the segment labels in groupby (lexicographic) order
SegmentOrder == <<"Boomers (50+)", "Gen X (36-50)", "Gen Z (Under 25)", "Millennials (25-35)">>

WithAgeSegment(u) ==
    [id |-> u.id, age |-> u.age, gender |-> u.gender, age_group |-> u.age_group,
     age_segment |-> chart_categorize_age(u.age)]

SegmentKeys(df) ==
    SelectSeq(SegmentOrder, LAMBDA s : \E i \in 1..Len(df) : df[i].age_segment = s)

SegmentAges(df, s) == Column(SelectSeq(df, LAMBDA r : r.age_segment = s), "age")

\* customer_count / customer_count.sum() * 100, rounded to one decimal (unit 0.1)
Percentage(count, total) ==
    IF total = 0 THEN NaN ELSE RoundHalfEven(1000 * count, total)

\* segment_summary: customer_count, avg_age (unit 0.1), percentage (unit 0.1)
SegmentSummary(df) ==
    LET keys  == SegmentKeys(df)
        cnt(s) == CountNotNa(SegmentAges(df, s))
        total == SumSkipNa([i \in 1..Len(keys) |-> cnt(keys[i])])
    IN  [i \in 1..Len(keys) |->
            [age_segment    |-> keys[i],
             customer_count |-> cnt(keys[i]),
             avg_age        |-> MeanRound(SegmentAges(df, keys[i]), 10),
             percentage     |-> Percentage(cnt(keys[i]), total)]]

\* create_customer_segmentation_chart
CreateCustomerSegmentationChart ==
    /\ pc = "chart2"
    /\ IF ~self.users.ok
       THEN Raise /\ UNCHANGED <<self, segment_summary, saved>>
       ELSE LET udf == MapSeq(self.users.rows, WithAgeSegment)
            IN  /\ self' = [self EXCEPT !.users = Frame(udf)]
                /\ segment_summary' = SegmentSummary(udf)
                /\ IF "chart2" \in renderFaults
                   THEN Raise /\ saved' = saved
                   ELSE /\ saved' = Append(saved, "02_customer_segmentation_dashboard.png")
                        /\ pc' = "chart3"
                        /\ UNCHANGED <<log, results, conn>>
    /\ UNCHANGED <<revenue_data, customer_metrics, top_customers,
                   summary_data, age_segments, showcase>>
    /\ UNCHANGED envVars
    /\ UNCHANGED extractVars

\* the user ids present in carts, in groupby order
UserKeys(df) == SortedKeys({df[i].userId : i \in 1..Len(df)})

UserGroup(df, u) == SelectSeq(df, LAMBDA r : r.userId = u)

\* rule 3 with "and" in place of "or"
customer_value_segment_and(row) ==
    IF row.total_spent >= 1500 * Scale /\ row.order_count >= 3 THEN "Premium Customer"
    ELSE IF row.total_spent >= 800 * Scale /\ row.order_count >= 2 THEN "Valuable Customer"
    ELSE IF row.total_spent >= 400 * Scale /\ row.order_count >= 2 THEN "Regular Customer"
    ELSE "Low-Value Customer"

\* create_sales_performance_chart.customer_value_segment
customer_value_segment(row) ==
    IF row.total_spent >= 1500 * Scale /\ row.order_count >= 3 THEN "Premium Customer"
    ELSE IF row.total_spent >= 800 * Scale /\ row.order_count >= 2 THEN "Valuable Customer"
    ELSE IF row.total_spent >= 400 * Scale \/ row.order_count >= 2 THEN "Regular Customer"
    ELSE "Low-Value Customer"

\* groupby('userId').agg({'total': ['sum','mean','count'], 'totalQuantity': 'sum'}).round(2)
MetricsRow(df, u) ==
    LET g == UserGroup(df, u)
    IN  [userId          |-> u,
         total_spent     |-> RoundHalfEven(SumSkipNa(Column(g, "total")), 1),
         avg_order_value |-> MeanRound(Column(g, "total"), 1),
         order_count     |-> CountNotNa(Column(g, "total")),
         total_items     |-> SumSkipNa(Column(g, "totalQuantity"))]

WithSegment(m) ==
    [userId |-> m.userId, total_spent |-> m.total_spent,
     avg_order_value |-> m.avg_order_value, order_count |-> m.order_count,
     total_items |-> m.total_items, customer_segment |-> customer_value_segment(m)]

CustomerMetrics(df) ==
    MapSeq(MapSeq(UserKeys(df), LAMBDA u : MetricsRow(df, u)), WithSegment)

RemoveAt(s, k) == [i \in 1..(Len(s) - 1) |-> IF i < k THEN s[i] ELSE s[i + 1]]

RECURSIVE StableSortDescending(_, _)
\* descending order in which equal keys keep their original order
StableSortDescending(rows, f) ==
    IF rows = <<>> THEN <<>>
    ELSE LET k == CHOOSE i \in 1..Len(rows) :
                    /\ \A j \in 1..Len(rows) : rows[j][f] <= rows[i][f]
                    /\ \A j \in 1..(i - 1) : rows[j][f] < rows[i][f]
         IN  <<rows[k]>> \o StableSortDescending(RemoveAt(rows, k), f)

Take(s, n) == SubSeq(s, 1, IF Len(s) < n THEN Len(s) ELSE n)

TopCustomers == 10
ShowcaseTop == 15

\* nlargest(n, f), keep='first': when n covers every row pandas returns
\* sort_values(ascending=False).head(n), otherwise equal keys keep their order
NLargest(n, rows, f) ==
    IF n >= Len(rows)
    THEN {Take(sorted, n) : sorted \in SortDescending(rows, f)}
    ELSE {Take(StableSortDescending(rows, f), n)}

\* create_sales_performance_chart
CreateSalesPerformanceChart ==
    /\ pc = "chart3"
    /\ IF ~self.carts.ok \/ ~self.users.ok
       THEN Raise /\ UNCHANGED <<customer_metrics, top_customers, saved>>
       ELSE /\ customer_metrics' = CustomerMetrics(self.carts.rows)
            /\ top_customers' \in NLargest(TopCustomers, CustomerMetrics(self.carts.rows),
                                         "total_spent")
            /\ IF "chart3" \in renderFaults
               THEN Raise /\ saved' = saved
               ELSE /\ saved' = Append(saved, "03_sales_performance_dashboard.png")
                    /\ pc' = "chart4"
                    /\ UNCHANGED <<log, results, conn>>
    /\ UNCHANGED <<self, revenue_data, segment_summary, summary_data, age_segments, showcase>>
    /\ UNCHANGED envVars
    /\ UNCHANGED extractVars

\* pd.cut(age, bins=[0, 25, 35, 50, 100]): the index of the right-closed interval
\* holding the age, 0 when there is none
CutBins == <<0, 25, 35, 50, 100>>
CutLabels == <<"Gen Z (<25)", "Millennials (25-35)", "Gen X (35-50)", "Boomers (50+)">>
Cut(age) ==
    IF \E b \in 1..4 : NaLt(CutBins[b], age) /\ NaLe(age, CutBins[b + 1])
    THEN CHOOSE b \in 1..4 : NaLt(CutBins[b], age) /\ NaLe(age, CutBins[b + 1])
    ELSE 0

\* groupby(pd.cut(...)).size(): the number of users in each bin
AgeSegments(df) ==
    [b \in 1..4 |-> Len(SelectSeq(df, LAMBDA r : Cut(r.age) = b))]

\* an unrounded mean, kept as the sum and the count of the non-missing values
Mean(vals) == [sum |-> SumSkipNa(vals), count |-> CountNotNa(vals)]

CategoryRevenue(df) ==
    MapSeq(CategoryKeys(df),
           LAMBDA c : [category |-> c,
                       revenue_potential |-> RevenuePotential(CategoryGroup(df, c))])

\* create_executive_summary_dashboard
CreateExecutiveSummaryDashboard ==
    /\ pc = "chart4"
    /\ IF ~self.carts.ok \/ ~self.users.ok \/ ~self.products.ok
       THEN Raise /\ UNCHANGED <<summary_data, age_segments, saved>>
       ELSE /\ \E revenue_by_category \in
                    SortDescending(CategoryRevenue(self.products.rows), "revenue_potential") :
                 summary_data' =
                    [total_revenue   |-> SumSkipNa(Column(self.carts.rows, "total")),
                     total_customers |-> Len(self.users.rows),
                     total_orders    |-> Len(self.carts.rows),
                     avg_order_value |-> Mean(Column(self.carts.rows, "total")),
                     top_category    |-> revenue_by_category[1].category,
                     avg_age         |-> Mean(Column(self.users.rows, "age")),
                     revenue_by_category |-> revenue_by_category]
            /\ age_segments' = AgeSegments(self.users.rows)
            /\ IF "chart4" \in renderFaults
               THEN Raise /\ saved' = saved
               ELSE /\ saved' = Append(saved, "04_executive_summary_dashboard.png")
                    /\ pc' = "chart5"
                    /\ UNCHANGED <<log, results, conn>>
    /\ UNCHANGED <<self, revenue_data, segment_summary, customer_metrics, top_customers,
                   showcase>>
    /\ UNCHANGED envVars
    /\ UNCHANGED extractVars

CustomerSales(df) ==
    MapSeq(UserKeys(df),
           LAMBDA u : [userId |-> u, total |-> SumSkipNa(Column(UserGroup(df, u), "total"))])

\* create_portfolio_showcase_image, and the rest of the try block
CreatePortfolioShowcaseImage ==
    /\ pc = "chart5"
    /\ IF ~self.carts.ok \/ ~self.users.ok \/ ~self.products.ok
       THEN Raise /\ UNCHANGED <<showcase, saved>>
       ELSE /\ \E sorted \in SortDescending(CustomerSales(self.carts.rows), "total") :
                 showcase' =
                    [revenue_data   |-> CategoryRevenue(self.products.rows),
                     age_segments   |-> AgeSegments(self.users.rows),
                     customer_sales |-> Take(sorted, ShowcaseTop),
                     rating_dist    |-> MapSeq(CategoryKeys(self.products.rows),
                        LAMBDA c : [category |-> c,
                                    rating |-> Mean(Column(CategoryGroup(self.products.rows, c),
                                                           "rating"))])]
            /\ IF "chart5" \in renderFaults
               THEN Raise /\ saved' = saved
               ELSE /\ saved' = Append(saved,
                                   "sales_performance_analytics_portfolio_showcase.png")
                    /\ log' = Append(log, "All visualizations created successfully!")
                    /\ results' = "dict"
                    /\ conn' = "closed"
                    /\ pc' = "main"
    /\ UNCHANGED <<self, revenue_data, segment_summary, customer_metrics, top_customers,
                   summary_data, age_segments>>
    /\ UNCHANGED envVars
    /\ UNCHANGED extractVars

\* main of create_visualizations.py, after generate_all_visualizations returned
Main ==
    /\ pc = "main"
    /\ log' = Append(log, IF results = "dict" THEN "Success!"
                                              ELSE "Failed to generate visualizations.")
    /\ pc' = "done"
    /\ UNCHANGED <<self, conn, revenue_data, segment_summary, customer_metrics,
                   top_customers, summary_data, age_segments, showcase, saved, results>>
    /\ UNCHANGED envVars
    /\ UNCHANGED extractVars

Next ==
    \/ ExtractProducts
    \/ ExtractUsers
    \/ ExtractCarts
    \/ CreateSqliteDatabase
    \/ LoadData
    \/ CreateRevenueByCategoryChart
    \/ CreateCustomerSegmentationChart
    \/ CreateSalesPerformanceChart
    \/ CreateExecutiveSummaryDashboard
    \/ CreatePortfolioShowcaseImage
    \/ Main

(***************************************************************************)
(* Initial states: what the API serves and what the environment does       *)
(***************************************************************************)
SeqsUpTo(S, n) == UNION {[1..k -> S] : k \in 0..n}

Endpoints == {"products", "users", "carts"}
Charts == {"chart1", "chart2", "chart3", "chart4", "chart5"}

Product(i, c, p, s, r) == [id |-> i, category |-> c, price |-> p, stock |-> s, rating |-> r]
User(i, a) == [id |-> i, age |-> a, gender |-> "female"]
Item(p, q, d) == [id |-> p, quantity |-> q, discountPercentage |-> d]
CartOf(i, u, t, d, items) ==
    [id |-> i, userId |-> u, total |-> t, discountedTotal |-> d,
     totalQuantity |-> 2 ^ (i - 1), products |-> items]
Cart(i, u, t) == CartOf(i, u, t, t, <<Item(1, 1, 0)>>)

\* the three products of the documented scenario
ScenarioProducts ==
    <<Product(1, "A", 10 * Scale, 5, 4 * Scale),
      Product(2, "A", 20 * Scale, 1, 3 * Scale),
      Product(3, "B", 5 * Scale, 10, 5 * Scale)>>

ProductLists ==
    {[i \in 1..Len(l) |-> Product(i, l[i][1], l[i][2], l[i][3], l[i][4])] :
        l \in SeqsUpTo({"A", "B"} \X {Bad, 10 * Scale, 20 * Scale} \X {1, 5}
                       \X {Bad, 4 * Scale}, MaxProducts)}
    \cup {ScenarioProducts}

AgeValues == {NaN, Bad, 1, 24, 25, 26, 35, 36, 50, 51, 100}

\* a population given by the number of users of each of four ages
RepresentativeAges == <<20, 30, 40, 60>>
RECURSIVE Block(_, _, _)
Block(first, n, age) ==
    IF n = 0 THEN <<>> ELSE <<User(first, age)>> \o Block(first + 1, n - 1, age)
Population(c) ==
    Block(1, c[1], RepresentativeAges[1])
    \o Block(1 + c[1], c[2], RepresentativeAges[2])
    \o Block(1 + c[1] + c[2], c[3], RepresentativeAges[3])
    \o Block(1 + c[1] + c[2] + c[3], c[4], RepresentativeAges[4])

UserLists ==
    {[i \in 1..Len(l) |-> User(i, l[i])] : l \in SeqsUpTo(AgeValues, MaxUsers)}

Populations ==
    {Population(c) : c \in {d \in [1..4 -> 0..MaxPopulation] :
                                d[1] + d[2] + d[3] + d[4] <= MaxPopulation}}

CartTotals == {Bad, 39999, 400 * Scale, 700 * Scale, 900 * Scale, 2000 * Scale}
CartLists ==
    {[i \in 1..Len(l) |-> Cart(i, l[i][1], l[i][2])] :
        l \in SeqsUpTo({1, 2} \X CartTotals, MaxCarts)}

\* line items: of product 1 of the catalogue or of product 9, which is not among
\* the fetched products; the quantity is a number, unparsable or absent
Items ==
    {Item(p, q, 0) : p \in {1, 9}, q \in {1, Bad, Absent}} \cup {Item(1, 1, Absent)}
PlainItems == {Item(1, 1, 0), Item(3, 2, 0)}

\* two carts of two users, the first with any line items and with or without
\* its total
ItemCarts ==
    {<<CartOf(1, 1, t, 400 * Scale, first), CartOf(2, 2, 900 * Scale, 900 * Scale, second)>> :
        t \in {500 * Scale, Absent},
        first \in SeqsUpTo(Items, MaxItems),
        second \in SeqsUpTo(PlainItems, MaxItems)}

\* carts with a total of 0.00, 0.03 or 100.00 (or unparsable) and a discounted
\* total of 0.00, 0.02 or 90.00 (or unparsable)
SavingsCarts ==
    {[i \in 1..Len(l) |-> CartOf(i, i, l[i][1], l[i][2], <<Item(1, 1, 0)>>)] :
        l \in SeqsUpTo({0, 3, 100 * Scale, Bad} \X {0, 2, 90 * Scale, Bad}, MaxSavingsCarts)}

SampleUsers == <<User(1, 25), User(2, NaN)>>
SampleCarts == <<Cart(1, 1, 900 * Scale), Cart(2, 1, 900 * Scale), Cart(3, 2, 2000 * Scale)>>

NoSummary == [computed |-> FALSE]

\* a database file that does not exist yet
EmptyDb == [t \in TableNames |-> None]

\* the database file left by an earlier, complete run
PreviousDb ==
    [products   |-> Frame(MapSeq(ScenarioProducts, ProductRow)),
     users      |-> Frame(MapSeq(SampleUsers, UserRow)),
     carts      |-> Frame(MapSeq(SampleCarts, CartRow)),
     cart_items |-> Frame(FlattenItems(SampleCarts))]

DbFaults == {"none", "index"} \cup TableNames

InitRun ==
    /\ pc = "extract_products"
    /\ frames = [t \in TableNames |-> None]
    /\ csv = {}
    /\ xconn = "none"
    /\ requests = <<>>
    /\ written = {}
    /\ self = [t \in TableNames |-> None]
    /\ conn = "none"
    /\ revenue_data = <<>>
    /\ segment_summary = <<>>
    /\ customer_metrics = <<>>
    /\ top_customers = <<>>
    /\ summary_data = NoSummary
    /\ age_segments = <<>>
    /\ showcase = NoSummary
    /\ saved = <<>>
    /\ log = <<>>
    /\ results = "unset"

\* a first run in which no fetch, database write or rendering fails
NoFaults ==
    /\ net = Endpoints
    /\ renderFaults = {}
    /\ dbFault = "none"
    /\ db = EmptyDb

\* every fetch, database write and rendering may fail, on sample data, with or
\* without the database file of an earlier run
Init ==
    /\ api_products \in {ScenarioProducts, <<>>}
    /\ api_users \in {SampleUsers, <<User(1, 25)>>}
    /\ api_carts \in {SampleCarts, <<>>}
    /\ net \in SUBSET Endpoints
    /\ renderFaults \in SUBSET Charts
    /\ dbFault \in DbFaults
    /\ db \in {EmptyDb, PreviousDb}
    /\ InitRun

\* every list of products, nothing fails
InitProducts ==
    /\ api_products \in ProductLists
    /\ api_users = SampleUsers
    /\ api_carts = SampleCarts
    /\ NoFaults
    /\ InitRun

\* every list of users, nothing fails
InitUsers ==
    /\ api_products = ScenarioProducts
    /\ api_users \in UserLists
    /\ api_carts = SampleCarts
    /\ NoFaults
    /\ InitRun

\* every population of users with known ages, nothing fails
InitPopulation ==
    /\ api_products = ScenarioProducts
    /\ api_users \in Populations
    /\ api_carts = SampleCarts
    /\ NoFaults
    /\ InitRun

\* every list of carts, nothing fails
InitCarts ==
    /\ api_products = ScenarioProducts
    /\ api_users = SampleUsers
    /\ api_carts \in CartLists
    /\ NoFaults
    /\ InitRun

\* every pair of carts with line items, nothing fails
InitItems ==
    /\ api_products = ScenarioProducts
    /\ api_users = SampleUsers
    /\ api_carts \in ItemCarts
    /\ NoFaults
    /\ InitRun

\* every list of carts with their totals and discounted totals, nothing fails
InitSavings ==
    /\ api_products = ScenarioProducts
    /\ api_users = SampleUsers
    /\ api_carts \in SavingsCarts
    /\ NoFaults
    /\ InitRun

Spec == Init /\ [][Next]_vars
SpecSavings == InitSavings /\ [][Next]_vars
SpecItems == InitItems /\ [][Next]_vars
SpecProducts == InitProducts /\ [][Next]_vars
SpecUsers == InitUsers /\ [][Next]_vars
SpecCarts == InitCarts /\ [][Next]_vars
SpecPopulation == InitPopulation /\ [][Next]_vars

TypeOK ==
    /\ pc \in {"extract_products", "extract_users", "extract_carts", "create_db", "crashed",
               "load_data", "chart1", "chart2", "chart3", "chart4", "chart5", "main", "done"}
    /\ results \in {"unset", "None", "dict"}
    /\ conn \in {"none", "open", "closed"}
    /\ xconn \in {"none", "open", "closed"}
    /\ dbFault \in DbFaults
    /\ written \subseteq TableNames
    /\ Len(requests) <= 3

(***************************************************************************)
(* Properties                                                              *)
(***************************************************************************)
RECURSIVE SumOver(_, _)
\* the sum of the function f over a finite subset of its domain
SumOver(S, f) ==
    IF S = {} THEN 0
    ELSE LET x == CHOOSE y \in S : TRUE
         IN  f[x] + SumOver(S \ {x}, f)

SegmentLabels ==
    {"Premium Customer", "Valuable Customer", "Regular Customer", "Low-Value Customer"}

\* the carts table rows of one user
CartsOf(u) == {i \in 1..Len(db["carts"].rows) : db["carts"].rows[i].userId = u}

\* C1: the customer-value segment of every customer_metrics row is the one the
\* first-match-wins cascade over (total_spent, order_count) gives: Premium iff
\* spent >= 1500 and orders >= 3; otherwise Valuable iff spent >= 800 and
\* orders >= 2; otherwise Regular iff spent >= 400 or orders >= 2; otherwise
\* Low-Value.  (2000, 1) is Regular and a user with carts [900, 900] is Valuable.
C1_ValueCascade ==
    \A i \in 1..Len(customer_metrics) :
        LET r   == customer_metrics[i]
            ts  == r.total_spent
            oc  == r.order_count
            seg == r.customer_segment
            premium  == ts >= 1500 * Scale /\ oc >= 3
            valuable == ~premium /\ ts >= 800 * Scale /\ oc >= 2
            regular  == ~premium /\ ~valuable /\ (ts >= 400 * Scale \/ oc >= 2)
        IN  /\ seg \in SegmentLabels
            /\ (seg = "Premium Customer") <=> premium
            /\ (seg = "Valuable Customer") <=> valuable
            /\ (seg = "Regular Customer") <=> regular
            /\ (seg = "Low-Value Customer") <=> (~premium /\ ~valuable /\ ~regular)
            /\ (ts = 2000 * Scale /\ oc = 1) => seg = "Regular Customer"
            /\ (/\ Cardinality(CartsOf(r.userId)) = 2
                /\ \A k \in CartsOf(r.userId) : db["carts"].rows[k].total = 900 * Scale)
               => seg = "Valuable Customer"

\* a run in which one user spent 2000 in one order and another has carts [900, 900]
C1_Witness ==
    /\ pc = "done"
    /\ \E i, j \in 1..Len(customer_metrics) :
        /\ customer_metrics[i].total_spent = 2000 * Scale
        /\ customer_metrics[i].order_count = 1
        /\ customer_metrics[i].customer_segment = "Regular Customer"
        /\ customer_metrics[j].total_spent = 1800 * Scale
        /\ customer_metrics[j].order_count = 2
        /\ customer_metrics[j].customer_segment = "Valuable Customer"

\* the segment that the classification rule of section 4.3 gives a known age
InSegment(age, label) ==
    /\ age < 25 => label = "Gen Z (Under 25)"
    /\ (25 <= age /\ age <= 35) => label = "Millennials (25-35)"
    /\ (36 <= age /\ age <= 50) => label = "Gen X (36-50)"
    /\ age > 50 => label = "Boomers (50+)"
    /\ label = "Boomers (50+)" => age > 50
    /\ label \in {"Gen Z (Under 25)", "Millennials (25-35)", "Gen X (36-50)", "Boomers (50+)"}

HasSegmentColumn(df) == df.ok /\ \A i \in 1..Len(df.rows) : "age_segment" \in DOMAIN df.rows[i]

\* C2: every non-missing age gets exactly one of the four segments, by the
\* extraction script (age_group) and by the segmentation chart (age_segment)
\* alike: < 25 Gen Z, 25..35 Millennials, 36..50 Gen X, Boomers only above 50.
C2_AgePartition ==
    /\ \A i \in 1..Len(db["users"].rows) :
          LET u == db["users"].rows[i]
          IN  ~IsNa(u.age) => InSegment(u.age, u.age_group)
    /\ HasSegmentColumn(self.users) =>
          \A i \in 1..Len(self.users.rows) :
              LET u == self.users.rows[i]
              IN  ~IsNa(u.age) => InSegment(u.age, u.age_segment)

\* a run that classified the boundary ages 35 and 36 in both places
C2_Witness ==
    /\ pc = "done"
    /\ HasSegmentColumn(self.users)
    /\ \E i, j \in 1..Len(self.users.rows) :
        /\ self.users.rows[i].age = 35
        /\ self.users.rows[i].age_segment = "Millennials (25-35)"
        /\ self.users.rows[i].age_group = "Millennials (25-35)"
        /\ self.users.rows[j].age = 36
        /\ self.users.rows[j].age_segment = "Gen X (36-50)"
        /\ self.users.rows[j].age_group = "Gen X (36-50)"

\* the users table rows whose age is known
KnownAges == {i \in 1..Len(db["users"].rows) : ~IsNa(db["users"].rows[i].age)}

\* C3: a user whose age is missing is "Unknown" in the extraction's age_group
\* and in the segmentation chart's age_segment, is left out of the mean age
\* and is counted in the total population.
C3_MissingAgeUnknown ==
    /\ \A i \in 1..Len(db["users"].rows) :
          IsNa(db["users"].rows[i].age) => db["users"].rows[i].age_group = "Unknown"
    /\ HasSegmentColumn(self.users) =>
          \A i \in 1..Len(self.users.rows) :
              IsNa(self.users.rows[i].age) => self.users.rows[i].age_segment = "Unknown"
    /\ summary_data # NoSummary =>
          /\ summary_data.avg_age.count = Cardinality(KnownAges)
          /\ summary_data.avg_age.sum =
                SumOver(KnownAges, [i \in KnownAges |-> db["users"].rows[i].age])
          /\ summary_data.total_customers = Len(db["users"].rows)

\* the generational segment each dashboard bin stands for
CutSegments == <<"Gen Z (Under 25)", "Millennials (25-35)", "Gen X (36-50)", "Boomers (50+)">>

\* the users of known age that the classification rule puts in a segment
UsersInSegment(label) == {i \in KnownAges : db["users"].rows[i].age_group = label}

BinsMatchSegments(bins) ==
    \A b \in 1..4 : bins[b] = Cardinality(UsersInSegment(CutSegments[b]))

\* C4: the executive dashboard and the portfolio showcase count every user of
\* known age in exactly the bin of the segment that categorize_age gives the
\* age, so each bin holds as many users as the segment does.
C4_SameSegmentEveryView ==
    /\ age_segments # <<>> => BinsMatchSegments(age_segments)
    /\ showcase # NoSummary => BinsMatchSegments(showcase.age_segments)

\* the products table rows of one category
ProductsOf(c) == {i \in 1..Len(db["products"].rows) : db["products"].rows[i].category = c}

\* price x stock of one products table row, nothing when either is missing
RowRevenue ==
    [i \in 1..Len(db["products"].rows) |->
        IF IsNa(db["products"].rows[i].price) \/ IsNa(db["products"].rows[i].stock)
        THEN 0
        ELSE db["products"].rows[i].price * db["products"].rows[i].stock]

RevenueMatchesRows(summary) ==
    /\ {summary[i].category : i \in 1..Len(summary)} =
          {db["products"].rows[j].category : j \in 1..Len(db["products"].rows)}
    /\ \A i, j \in 1..Len(summary) : summary[i].category = summary[j].category => i = j
    /\ \A i \in 1..Len(summary) :
          summary[i].revenue_potential = SumOver(ProductsOf(summary[i].category), RowRevenue)
    /\ SumOver(1..Len(summary), [i \in 1..Len(summary) |-> summary[i].revenue_potential])
          = SumOver(1..Len(db["products"].rows), RowRevenue)

\* C5: in every category summary (revenue chart, executive dashboard, showcase)
\* the revenue_potential of a category is the sum of price x stock over exactly
\* the product rows of that category, and the values of all categories add up
\* to the sum over all product rows.
C5_RevenueSum ==
    /\ revenue_data # <<>> => RevenueMatchesRows(revenue_data)
    /\ summary_data # NoSummary => RevenueMatchesRows(summary_data.revenue_by_category)
    /\ showcase # NoSummary => RevenueMatchesRows(showcase.revenue_data)

\* the documented scenario went through all three summaries: A 70, B 50
C5_Witness ==
    /\ pc = "done"
    /\ Len(db["products"].rows) = 3
    /\ \A s \in {revenue_data, summary_data.revenue_by_category, showcase.revenue_data} :
          /\ Len(s) = 2
          /\ s[1].category = "A" /\ s[1].revenue_potential = 70 * Scale
          /\ s[2].category = "B" /\ s[2].revenue_potential = 50 * Scale

\* the rows of a category whose field f is known
KnownOf(c, f) == {i \in ProductsOf(c) : ~IsNa(db["products"].rows[i][f])}

Abs(x) == IF x < 0 THEN -x ELSE x

\* avg is the mean of field f over the known values of the category, to the
\* last digit kept, and is missing when there is no known value
IsMeanOf(avg, c, f) ==
    IF KnownOf(c, f) = {} THEN IsNa(avg)
    ELSE 2 * Abs(avg * Cardinality(KnownOf(c, f))
                 - SumOver(KnownOf(c, f),
                           [i \in KnownOf(c, f) |-> db["products"].rows[i][f]]))
            <= Cardinality(KnownOf(c, f))

\* C6: the category summary reports, per category, product_count = number of
\* product rows, avg_price and avg_rating = the means of the known prices and
\* ratings, total_stock = the sum of stock; the three-product scenario gives
\* A: 2, 15.0, 3.5, 70 and B: 1, 5.0, 5.0, 50, with A before B.
C6_CategorySummary ==
    revenue_data # <<>> =>
        /\ \A i \in 1..Len(revenue_data) :
              LET r == revenue_data[i]
              IN  /\ r.product_count = Cardinality(ProductsOf(r.category))
                  /\ IsMeanOf(r.avg_price, r.category, "price")
                  /\ IsMeanOf(r.avg_rating, r.category, "rating")
                  /\ r.total_stock = SumOver(ProductsOf(r.category),
                        [k \in 1..Len(db["products"].rows) |-> db["products"].rows[k].stock])
        /\ api_products = ScenarioProducts =>
              revenue_data =
                 <<[category |-> "A", product_count |-> 2, avg_price |-> 15 * Scale,
                    total_stock |-> 6, avg_rating |-> 350, revenue_potential |-> 70 * Scale],
                   [category |-> "B", product_count |-> 1, avg_price |-> 5 * Scale,
                    total_stock |-> 10, avg_rating |-> 500, revenue_potential |-> 50 * Scale]>>

OnePerCategory(summary) ==
    /\ {summary[i].category : i \in 1..Len(summary)} =
          {db["products"].rows[j].category : j \in 1..Len(db["products"].rows)}
    /\ \A i, j \in 1..Len(summary) : summary[i].category = summary[j].category => i = j

RevenueThenName(summary) ==
    \A i, j \in 1..Len(summary) :
        i < j => \/ summary[i].revenue_potential > summary[j].revenue_potential
                 \/ /\ summary[i].revenue_potential = summary[j].revenue_potential
                    /\ CategoryRank(summary[i].category) < CategoryRank(summary[j].category)

\* C7: the category summary has one row per distinct category, ordered by
\* revenue_potential descending, and of two categories with equal
\* revenue_potential the one with the smaller name comes first.
C7_RevenueOrder ==
    /\ revenue_data # <<>> =>
          OnePerCategory(revenue_data) /\ RevenueThenName(revenue_data)
    /\ summary_data # NoSummary =>
          /\ OnePerCategory(summary_data.revenue_by_category)
          /\ RevenueThenName(summary_data.revenue_by_category)

CartField(f) == [k \in 1..Len(db["carts"].rows) |->
                    IF IsNa(db["carts"].rows[k][f]) THEN 0 ELSE db["carts"].rows[k][f]]

MetricsField(f) == [i \in 1..Len(customer_metrics) |-> customer_metrics[i][f]]

\* C8: for every user id in carts, total_spent, order_count and total_items are
\* the sum of total, the number and the sum of totalQuantity of exactly that
\* user's carts; total_spent adds up to total_revenue and order_count to
\* total_orders.
C8_CustomerSums ==
    customer_metrics # <<>> =>
        /\ {customer_metrics[i].userId : i \in 1..Len(customer_metrics)} =
              {db["carts"].rows[k].userId : k \in 1..Len(db["carts"].rows)}
        /\ \A i \in 1..Len(customer_metrics) :
              LET r == customer_metrics[i]
              IN  /\ r.total_spent = SumOver(CartsOf(r.userId), CartField("total"))
                  /\ r.order_count = Cardinality(CartsOf(r.userId))
                  /\ r.total_items = SumOver(CartsOf(r.userId), CartField("totalQuantity"))
        /\ SumOver(1..Len(customer_metrics), MetricsField("total_spent"))
              = SumOver(1..Len(db["carts"].rows), CartField("total"))
        /\ SumOver(1..Len(customer_metrics), MetricsField("order_count"))
              = Len(db["carts"].rows)
        /\ summary_data # NoSummary =>
              /\ summary_data.total_revenue
                    = SumOver(1..Len(customer_metrics), MetricsField("total_spent"))
              /\ summary_data.total_orders
                    = SumOver(1..Len(customer_metrics), MetricsField("order_count"))

\* C9: the percentages of the segmentation summary (unit 0.1) of a non-empty
\* population sum to a value within 0.1 of 100.
C9_PercentagesSum ==
    segment_summary # <<>> =>
        /\ \A i \in 1..Len(segment_summary) : ~IsNa(segment_summary[i].percentage)
        /\ Abs(SumOver(1..Len(segment_summary),
                       [i \in 1..Len(segment_summary) |-> segment_summary[i].percentage])
               - 1000) <= 1

ChartFile ==
    [c \in Charts |->
        CASE c = "chart1" -> "01_revenue_by_category_dashboard.png"
          [] c = "chart2" -> "02_customer_segmentation_dashboard.png"
          [] c = "chart3" -> "03_sales_performance_dashboard.png"
          [] c = "chart4" -> "04_executive_summary_dashboard.png"
          [] c = "chart5" -> "sales_performance_analytics_portfolio_showcase.png"]

\* the tables a chart reads
ChartTables ==
    [c \in Charts |->
        CASE c = "chart1" -> {"products"}
          [] c = "chart2" -> {"users"}
          [] c = "chart3" -> {"carts", "users"}
          [] c = "chart4" -> {"carts", "users", "products"}
          [] c = "chart5" -> {"carts", "users", "products"}]

\* the charts that fail by themselves in this run
FailingCharts ==
    {c \in Charts : c \in renderFaults \/ \E t \in ChartTables[c] : ~self[t].ok}

ErrorLines == SelectSeq(log, LAMBDA l : l = "Error generating visualizations")

\* C10: when the visualization run is over, every chart that does not itself
\* fail has been produced, whichever other charts failed, and a failure has
\* been logged when a chart failed.
C10_ChartsIndependent ==
    pc = "done" =>
        /\ \A c \in Charts \ FailingCharts : \E k \in 1..Len(saved) : saved[k] = ChartFile[c]
        /\ FailingCharts # {} => ErrorLines # <<>>

(***************************************************************************)
(* Extraction run: fetches, storage and handles                            *)
(***************************************************************************)
FetchOrder == <<"products", "users", "carts">>

CsvOf == [products |-> "products.csv", users |-> "users.csv", carts |-> "carts.csv"]

\* run_extraction has returned or has been ended by an uncaught exception
ExtractionEnded == pc \notin {"extract_products", "extract_users", "extract_carts", "create_db"}

IsPrefix(s, t) == Len(s) <= Len(t) /\ \A k \in 1..Len(s) : s[k] = t[k]

\* C11: every extraction run requests products, users and carts exactly once,
\* in that order and without retry; a failed fetch leaves only its own
\* collection missing, and every collection that was fetched is written to its
\* CSV file and (when no table write raises) to its database table.
C11_FetchesIndependent ==
    /\ IsPrefix(requests, FetchOrder)
    /\ ExtractionEnded =>
          /\ requests = FetchOrder
          /\ \A e \in Endpoints :
                /\ e \notin net => ~frames[e].ok
                /\ e \in net => frames[e].ok /\ CsvOf[e] \in csv
                /\ e \in net /\ dbFault \notin TableNames => db[e] = frames[e]

Logged(line) == \E k \in 1..Len(log) : log[k] = line

\* create_sqlite_database has run and one of its statements raised
StorageRaised ==
    /\ ExtractionEnded /\ pc # "crashed"
    /\ \/ FailAt < 5
       \/ dbFault = "index"
       \/ \E t \in TableNames : ~db[t].ok

\* C12: when a table write or an index creation of the extraction run raises,
\* the failure is logged and the run neither reports that the extraction
\* completed successfully nor lists the database among the files created.
C12_StorageFailureAborts ==
    /\ StorageRaised => Logged("Error creating database")
    /\ StorageRaised =>
          /\ ~Logged("Data extraction completed successfully!")
          /\ ~Logged("Files created: sales_analytics.db")

\* C13: every database handle opened during a run is closed when the run
\* ends: the extraction run's handle once run_extraction is over, also when
\* a table write or an index creation raised, and the visualization run's
\* handle once main is over, also when loading or rendering failed.
C13_HandlesClosed ==
    /\ ExtractionEnded => xconn # "open"
    /\ pc = "done" => conn # "open"

(***************************************************************************)
(* Top customers                                                           *)
(***************************************************************************)
\* view lists the first min(n, number of users) of totals by value descending,
\* equal values by user id ascending
Ranked(view, idf, keyf, n, totals) ==
    /\ Len(view) = (IF Len(totals) < n THEN Len(totals) ELSE n)
    /\ \A i \in 1..Len(view) : \E j \in 1..Len(totals) :
          totals[j].userId = view[i][idf] /\ totals[j].total = view[i][keyf]
    /\ \A i, j \in 1..Len(view) : i < j =>
          \/ view[i][keyf] > view[j][keyf]
          \/ view[i][keyf] = view[j][keyf] /\ view[i][idf] < view[j][idf]
    /\ \A j \in 1..Len(totals) :
          (\A i \in 1..Len(view) : view[i][idf] # totals[j].userId) =>
             \A i \in 1..Len(view) : totals[j].total <= view[i][keyf]

\* C14: the top-10 list of the sales performance chart and the top-15 list of
\* the portfolio showcase each hold min(N, number of users with carts) users by
\* total spent descending, equal totals by user id ascending, and no user left
\* out spent more than a listed one.
C14_TopCustomersRanked ==
    /\ customer_metrics # <<>> =>
          Ranked(top_customers, "userId", "total_spent", TopCustomers,
                 CustomerSales(self.carts.rows))
    /\ showcase # NoSummary =>
          Ranked(showcase.customer_sales, "userId", "total", ShowcaseTop,
                 CustomerSales(self.carts.rows))

(***************************************************************************)
(* Persisted data                                                          *)
(***************************************************************************)
\* C15: after an extraction run in which no table write raised, every table
\* of the database holds the rows of that run only: each table was replaced
\* by the run, also the table of a collection whose fetch failed.
C15_ReplacedWholesale ==
    (ExtractionEnded /\ pc # "crashed" /\ FailAt = 5) =>
        \A t \in TableNames : db[t].ok => t \in written /\ db[t] = frames[t]

Saved(file) == \E k \in 1..Len(saved) : saved[k] = file

\* C16: when a collection is missing from the database, a visualization run in
\* which no rendering fails ends normally and has produced every chart whose
\* tables are all present.
C16_MissingCollectionTolerated ==
    (pc = "done" /\ renderFaults = {} /\ \E t \in Endpoints : ~db[t].ok) =>
        \A c \in Charts : (\A t \in ChartTables[c] : db[t].ok) => Saved(ChartFile[c])

\* C17: every row of the persisted cart_items table has the product_id of a
\* row of the persisted products table and the cart_id of a row of the
\* persisted carts table.
C17_ItemsReferenceRows ==
    (ExtractionEnded /\ pc # "crashed" /\ db.cart_items.ok) =>
        \A k \in 1..Len(db.cart_items.rows) :
            /\ db.products.ok
            /\ \E i \in 1..Len(db.products.rows) :
                  db.products.rows[i].id = db.cart_items.rows[k].product_id
            /\ db.carts.ok
            /\ \E i \in 1..Len(db.carts.rows) :
                  db.carts.rows[i].id = db.cart_items.rows[k].cart_id

(***************************************************************************)
(* Cart line items                                                         *)
(***************************************************************************)
\* extract_carts has returned the frames of the fetched carts
Flattened ==
    /\ pc \notin {"extract_products", "extract_users", "extract_carts", "crashed"}
    /\ frames.carts.ok

LineItems == [k \in 1..Len(api_carts) |-> Len(api_carts[k].products)]

\* the number of line items of the carts before cart k
Offset(k) == SumOver(1..(k - 1), LineItems)

Malformed(v) == v \in {Bad, Absent}

\* C19: a missing or unparsable field of a fetched record never ends the run
\* or loses the row: every frame has as many rows as records were fetched, and
\* the field of the row holds the missing-value marker; likewise for the line
\* items of the carts.
C19_MalformedFieldKept ==
    /\ pc # "crashed"
    /\ frames.products.ok =>
          /\ Len(frames.products.rows) = Len(api_products)
          /\ \A k \in 1..Len(api_products) :
                Malformed(api_products[k].price) => IsNa(frames.products.rows[k].price)
    /\ frames.users.ok =>
          /\ Len(frames.users.rows) = Len(api_users)
          /\ \A k \in 1..Len(api_users) :
                Malformed(api_users[k].age) => IsNa(frames.users.rows[k].age)
    /\ Flattened =>
          /\ Len(frames.carts.rows) = Len(api_carts)
          /\ \A k \in 1..Len(api_carts) :
                Malformed(api_carts[k].total) => IsNa(frames.carts.rows[k].total)
          /\ \A k \in 1..Len(api_carts) : \A i \in 1..LineItems[k] :
                Malformed(api_carts[k].products[i].quantity) =>
                    /\ Len(frames.cart_items.rows) >= Offset(k) + i
                    /\ IsNa(frames.cart_items.rows[Offset(k) + i].quantity)

(***************************************************************************)
(* Cart savings                                                            *)
(***************************************************************************)
\* C20: every cart row has total_savings = total - discountedTotal; when the
\* total is not zero its savings_percentage is total_savings / total x 100 (to
\* the nearest hundredth), and when the total is zero the savings_percentage
\* is zero or missing.
C20_SavingsDefined ==
    Flattened =>
        \A k \in 1..Len(frames.carts.rows) :
            LET r == frames.carts.rows[k]
            IN  /\ (~IsNa(r.total) /\ ~IsNa(r.discountedTotal)) =>
                      /\ r.total_savings = r.total - r.discountedTotal
                      /\ r.total # 0 =>
                            2 * Abs(r.savings_percentage * r.total
                                    - r.total_savings * 100 * Scale) <= r.total
                /\ r.total = 0 => r.savings_percentage \in {0, NaN}

(***************************************************************************)
(* Visualization run: outcome                                              *)
(***************************************************************************)
\* the charts in the order generate_all_visualizations creates them
ChartOrder == <<"chart1", "chart2", "chart3", "chart4", "chart5">>

ChartFiles == [k \in 1..Len(ChartOrder) |-> ChartFile[ChartOrder[k]]]

\* the position of the first chart that raises, one past the last when none does
FirstFailing ==
    IF \E k \in 1..Len(ChartOrder) : ChartOrder[k] \in FailingCharts
    THEN CHOOSE k \in 1..Len(ChartOrder) :
            /\ ChartOrder[k] \in FailingCharts
            /\ \A j \in 1..(k - 1) : ChartOrder[j] \notin FailingCharts
    ELSE Len(ChartOrder) + 1

\* C21: a visualization run returns a result and prints the success banner
\* only when the five charts have been saved in their order; when a chart
\* raises, the result is None, main prints the failure banner, and exactly the
\* charts before the failing one have been saved.
C21_SuccessMeansAllCharts ==
    /\ IsPrefix(saved, ChartFiles)
    /\ results = "dict" => saved = ChartFiles
    /\ Logged("Success!") => results = "dict" /\ saved = ChartFiles
    /\ Logged("Error generating visualizations") =>
          /\ results = "None"
          /\ FirstFailing <= Len(ChartOrder)
          /\ saved = SubSeq(ChartFiles, 1, FirstFailing - 1)
    /\ pc = "done" =>
          /\ results \in {"dict", "None"}
          /\ results = "None" =>
                /\ Logged("Error generating visualizations")
                /\ Logged("Failed to generate visualizations.")
                /\ ~Logged("Success!")

\* the third chart raised after two charts were saved, and main has reported
\* the failure
C21_Witness ==
    /\ pc = "done"
    /\ results = "None"
    /\ saved = SubSeq(ChartFiles, 1, 2)
    /\ "chart3" \in renderFaults
    /\ Logged("Failed to generate visualizations.")

(***************************************************************************)
(* Customer metrics                                                        *)
(***************************************************************************)
CartUsers == {self.carts.rows[i].userId : i \in 1..Len(self.carts.rows)}

\* C22: the customer metrics hold exactly one row for every user id of the
\* cart rows and no other row (so a user without carts has no segment, and a
\* cart user missing from the users table has one), and every row counts at
\* least one order.
C22_MetricsRowPerCartUser ==
    customer_metrics # <<>> =>
        /\ \A u \in CartUsers :
              Cardinality({k \in 1..Len(customer_metrics) : customer_metrics[k].userId = u}) = 1
        /\ \A k \in 1..Len(customer_metrics) :
              /\ customer_metrics[k].userId \in CartUsers
              /\ customer_metrics[k].customer_segment \in SegmentLabels
              /\ customer_metrics[k].order_count >= 1

====
